---- MODULE Spec2Model ----
(***************************************************************************)
(* A model of the device agent core of deviceplane/cli:                    *)
(*   - supervisor.Reporter (src/unnamed/part_001): the three tick-driven   *)
(*     reporter loops and the setters that feed them;                      *)
(*   - the bundle applier of pkg/agent (src/pkg/agent/agent.go):           *)
(*     loadSavedBundle, downloadLatestBundle, mergeBundle and the          *)
(*     dispatch to Supervisor / GC / Updater / MetricsPusher;              *)
(*   - Agent.Initialize and register across crashes and restarts;          *)
(*   - the Reporter at the grain of its lock operations, with concurrent   *)
(*     SetDesiredApplication calls, and Reporter.Stop;                     *)
(*   - customcommands.Validator (found in src/script/build.bash).          *)
(*                                                                         *)
(* Strings are modelled by small naturals: release id 0 and agent version  *)
(* 0 stand for the empty string "" (Go's zero value).  A Go map is a       *)
(* function whose DOMAIN is the set of keys present.                       *)
(***************************************************************************)
EXTENDS Naturals, FiniteSets, Sequences, TLC

\* ------------------------------------------------------------------ bounds
MaxService == 2
MaxRelease == 2
MaxApp == 2
MaxVersion == 2
\* Services whose state is set while both sweeping loops run (SweepSpec).
MaxStateService == 1

\* Access keys the API may hand out, and devices it may register.
MaxKey == 2
MaxDevice == 3
\* Goroutines calling SetDesiredApplication at the same time.
MaxCaller == 2
\* Goroutines calling Stop on the same Reporter.
MaxStopCaller == 2

\* Arguments a Command or an Entrypoint is made of, and how many it may have.
MaxArg == 2
MaxLen == 2

Services == 1..MaxService
StateServices == 1..MaxStateService
\* Release ids handed to the setters; 0 is the zero value "" of the fields.
Releases == 1..MaxRelease
Apps == 1..MaxApp
\* Agent versions; 0 is the zero value "".
Versions == 0..MaxVersion
AccessKeys == 1..MaxKey
Callers == 1..MaxCaller
StopCallers == 1..MaxStopCaller
\* The three loops of a Reporter.
Loops == {"app", "status", "state"}

VARIABLES
  \* ---- supervisor.Reporter, src/unnamed/part_001:13-36
  desiredApplicationRelease,
  desiredApplicationServiceNames,
  reportedApplicationRelease,
  serviceStatuses,
  reportedServiceStatuses,
  serviceStates,
  reportedServiceStates,
  started,             \* r.once has fired: the three loops are running
  \* ---- applicationStatusReporter's position and local
  appPc,               \* "idle" | "gate" | "publish" | "cont"
  releaseToReport,
  appGate,             \* how this iteration went: "reported" | "quorum" |
                       \* "pass" | "ok" | "error" ("none" before the gate)
  \* ---- serviceStatusReporter's position and locals
  statusPc,            \* "idle" | "diff" | "publish" | "cont"
  statusDiff,
  statusCopy,
  statusTodo,          \* keys of diff the range loop has not reached yet
  statusFailed,        \* the sweep left through goto cont
  statusDelivered,     \* <<service, release>> whose reportServiceStatus returned
                       \* nil: a history kept in OrderSpec only
  \* ---- serviceStateReporter's position and locals
  statePc,
  stateDiff,
  stateCopy,
  stateTodo,
  stateFailed,
  \* ---- bundle applier, src/pkg/agent/agent.go:211-318
  file,                \* contents of <stateDir>/<projectID>/bundle
  bundle,              \* runBundleApplier's local *models.Bundle
  applierPc,
  fetched,             \* GetBundleBytes has been called at least once
  cycle,               \* what the current download cycle did
  calls,               \* downstream calls made since the last download began
  supervisorApps,      \* applications of the last Supervisor.Set call
  lastGood,            \* last bundle parsed in full or loaded at boot
  \* ---- mergeBundle as a pure function
  mergeOld,
  mergeBytes,
  mergeResult,
  mergeDone,
  \* ---- Agent.Initialize and register, src/pkg/agent/agent.go:147-201
  accessKeyFile,       \* contents of <stateDir>/<projectID>/access-key, 0 = no file
  deviceIDFile,        \* contents of <stateDir>/<projectID>/device-id, 0 = no file
  initPc,              \* position of the agent process in Initialize
  initError,           \* the error Initialize returned
  registerDeviceResponse,
  clientAccessKey,     \* what a.client holds (0 = unset)
  clientDeviceID,
  registrations,       \* devices the API has registered for this agent
  crashedAt,           \* where in Initialize the process last died
  \* ---- customcommands.Validator, src/script/build.bash:42-64
  disableCustomCommands,  \* what variables.GetDisableCustomCommands() returns
  validated,           \* the service of the last Validate call
  validateResult,      \* what that call returned
  disabledAtCall,      \* the value of the variable when that call was made
  \* ---- Reporter.Stop and the root context, src/unnamed/part_001:97-103
  cancelled,           \* r.cancel() has been called
  stopPc,              \* position of each goroutine that calls Stop
  \* ---- r.lock and the goroutines inside SetDesiredApplication
  lockWriter,          \* the caller holding r.lock for writing, 0 = none
  lockReaders,         \* the loops holding r.lock for reading
  callerPc,            \* position of each caller of SetDesiredApplication
  callerArgs,          \* the arguments of its call
  lastArgs,            \* the arguments of the call that last took the lock
  instances            \* how often once.Do has run its function

reporterVars ==
  <<desiredApplicationRelease, desiredApplicationServiceNames,
    reportedApplicationRelease, serviceStatuses, reportedServiceStatuses,
    serviceStates, reportedServiceStates, started>>
appLoopVars == <<appPc, releaseToReport, appGate>>
statusLoopVars ==
  <<statusPc, statusDiff, statusCopy, statusTodo, statusFailed, statusDelivered>>
stateLoopVars == <<statePc, stateDiff, stateCopy, stateTodo, stateFailed>>
applierVars ==
  <<file, bundle, applierPc, fetched, cycle, calls, supervisorApps, lastGood>>
mergeVars == <<mergeOld, mergeBytes, mergeResult, mergeDone>>
registerVars ==
  <<accessKeyFile, deviceIDFile, initPc, initError, registerDeviceResponse,
    clientAccessKey, clientDeviceID, registrations, crashedAt>>
\* The variables of the reporter, the applier and mergeBundle.
coreVars ==
  <<reporterVars, appLoopVars, statusLoopVars, stateLoopVars, applierVars, mergeVars>>
validateVars == <<disableCustomCommands, validated, validateResult, disabledAtCall>>
stopVars == <<cancelled, stopPc>>
lockVars == <<lockWriter, lockReaders>>
callerVars == <<callerPc, callerArgs, lastArgs, instances>>
\* The variables outside the Reporter.
offReporterVars == <<applierVars, mergeVars, registerVars, validateVars>>
\* The variables none of their actions writes.
extraVars == <<registerVars, validateVars, stopVars, lockVars, callerVars>>
vars == <<coreVars, extraVars>>

\* models.Service as the validator sees it: Command and Entrypoint.
NoService == [Command |-> << >>, Entrypoint |-> << >>]

\* The []string values of Command and Entrypoint.
Words == UNION {[1..n -> 1..MaxArg] : n \in 0..MaxLen}

ValidatedServices == [Command : Words, Entrypoint : Words]

\* The desired pair of a new Reporter, and of a caller outside a call.
NoArgs == <<0, {}>>

\* ------------------------------------------------------------- Go maps
EmptyMap == [k \in {} |-> 0]

\* m[k] = v of a Go map.
MapSet(m, k, v) == [x \in DOMAIN m \cup {k} |-> IF x = k THEN v ELSE m[x]]

\* models.SetDeviceServiceStateRequest: State and ErrorMessage.
ServiceStateValues ==
  {[State |-> "running", ErrorMessage |-> 0],
   [State |-> "exited", ErrorMessage |-> 0],
   [State |-> "exited", ErrorMessage |-> 1]}

\* A service that runs.
Running == [State |-> "running", ErrorMessage |-> 0]

\* ============================================================ Reporter

\* NewReporter: empty maps, zero strings, no loop running.
ReporterInit ==
  /\ desiredApplicationRelease = 0
  /\ desiredApplicationServiceNames = {}
  /\ reportedApplicationRelease = 0
  /\ serviceStatuses = EmptyMap
  /\ reportedServiceStatuses = EmptyMap
  /\ serviceStates = EmptyMap
  /\ reportedServiceStates = EmptyMap
  /\ started = FALSE
  /\ appPc = "idle"
  /\ releaseToReport = 0
  /\ appGate = "none"
  /\ statusPc = "idle"
  /\ statusDiff = EmptyMap
  /\ statusCopy = EmptyMap
  /\ statusTodo = {}
  /\ statusFailed = FALSE
  /\ statusDelivered = {}
  /\ statePc = "idle"
  /\ stateDiff = EmptyMap
  /\ stateCopy = EmptyMap
  /\ stateTodo = {}
  /\ stateFailed = FALSE

\* The position a loop takes when once.Do starts it (idle before the first call).
StartLoop(pc, first) == IF pc = "idle" THEN first ELSE pc

\* SetDesiredApplication: both desired fields are replaced in one critical
\* section, then once.Do starts the three loops on the first call.
SetDesiredApplication(release, serviceNames) ==
  /\ desiredApplicationRelease' = release
  /\ desiredApplicationServiceNames' = serviceNames
  /\ started' = TRUE
  /\ appPc' = StartLoop(appPc, "gate")
  /\ statusPc' = StartLoop(statusPc, "diff")
  /\ statePc' = StartLoop(statePc, "diff")
  /\ UNCHANGED <<reportedApplicationRelease, serviceStatuses, reportedServiceStatuses,
                 serviceStates, reportedServiceStates>>
  /\ UNCHANGED <<releaseToReport, appGate>>
  /\ UNCHANGED <<statusDiff, statusCopy, statusTodo, statusFailed, statusDelivered>>
  /\ UNCHANGED <<stateDiff, stateCopy, stateTodo, stateFailed>>
  /\ UNCHANGED <<applierVars, mergeVars, extraVars>>

SetServiceStatus(serviceName, currentReleaseID) ==
  /\ serviceStatuses' = MapSet(serviceStatuses, serviceName, currentReleaseID)
  /\ UNCHANGED <<desiredApplicationRelease, desiredApplicationServiceNames,
                 reportedApplicationRelease, reportedServiceStatuses,
                 serviceStates, reportedServiceStates, started>>
  /\ UNCHANGED <<appLoopVars, statusLoopVars, stateLoopVars, applierVars, mergeVars, extraVars>>

SetServiceState(serviceName, state) ==
  /\ serviceStates' = MapSet(serviceStates, serviceName, state)
  /\ UNCHANGED <<desiredApplicationRelease, desiredApplicationServiceNames,
                 reportedApplicationRelease, serviceStatuses, reportedServiceStatuses,
                 reportedServiceStates, started>>
  /\ UNCHANGED <<appLoopVars, statusLoopVars, stateLoopVars, applierVars, mergeVars, extraVars>>

\* ---------------------------------------------- applicationStatusReporter

\* Variant: the comparison with the reported release left out.
MutAlreadyReported(release, reported) == FALSE
\* The first check under the read lock: nothing to report.
AlreadyReported(release, reported) == release = reported

\* Variant: a name without an entry passes (the `!ok` test left out).
MutQuorumGate(release, names, statuses) ==
  \A n \in names : n \in DOMAIN statuses => statuses[n] = release
\* The range loop over desiredApplicationServiceNames: every name has an
\* entry carrying the release (a missing entry fails, `!ok`).
QuorumGate(release, names, statuses) ==
  \A n \in names : n \in DOMAIN statuses /\ statuses[n] = release

\* One read-lock section: read the desired release, compare with the reported
\* one, run the gate; leave for cont or go on to publish.
AppGateAt(at) ==
  /\ appPc = at
  /\ releaseToReport' = desiredApplicationRelease
  /\ appGate' =
       IF AlreadyReported(desiredApplicationRelease, reportedApplicationRelease)
       THEN "reported"
       ELSE IF QuorumGate(desiredApplicationRelease,
                          desiredApplicationServiceNames, serviceStatuses)
            THEN "pass"
            ELSE "quorum"
  /\ appPc' = IF appGate' = "pass" THEN "publish" ELSE "cont"
  /\ UNCHANGED <<reporterVars, statusLoopVars, stateLoopVars, offReporterVars>>

\* The section as one step, RLock to RUnlock.
AppGate == AppGateAt("gate") /\ UNCHANGED <<stopVars, lockVars, callerVars>>

\* Variant: the desired release of the moment is committed.
MutCommitApplication(published, desired) == desired
\* The value of reportedApplicationRelease after a publish that returned nil.
CommitApplication(published, desired) == published

\* reportApplicationStatus returned nil: the release of this tick is committed.
AppPublishOk ==
  /\ appPc = "publish"
  /\ reportedApplicationRelease' =
       CommitApplication(releaseToReport, desiredApplicationRelease)
  /\ appGate' = "ok"
  /\ appPc' = "cont"
  /\ UNCHANGED <<desiredApplicationRelease, desiredApplicationServiceNames,
                 serviceStatuses, reportedServiceStatuses, serviceStates,
                 reportedServiceStates, started>>
  /\ UNCHANGED <<releaseToReport, statusLoopVars, stateLoopVars, applierVars, mergeVars, extraVars>>

\* Variant: the loop returns on a failed publish instead of waiting for the
\* next tick.
MutAppPublishFail ==
  /\ appPc = "publish"
  /\ appGate' = "error"
  /\ appPc' = "returned"
  /\ UNCHANGED <<releaseToReport, reporterVars, statusLoopVars, stateLoopVars,
                 applierVars, mergeVars, extraVars>>
\* reportApplicationStatus returned an error: goto cont, nothing committed.
AppPublishFail ==
  /\ appPc = "publish"
  /\ appGate' = "error"
  /\ appPc' = "cont"
  /\ UNCHANGED <<releaseToReport, reporterVars, statusLoopVars, stateLoopVars,
                 applierVars, mergeVars, extraVars>>

\* cont: the ticker fires and the loop continues with a new iteration, whose
\* locals are fresh.
AppTick ==
  /\ appPc = "cont"
  /\ appPc' = "gate"
  /\ releaseToReport' = 0
  /\ appGate' = "none"
  /\ UNCHANGED <<reporterVars, statusLoopVars, stateLoopVars, applierVars, mergeVars, extraVars>>

\* ------------------------------------------------ serviceStatusReporter

\* Variant: every entry is taken into diff.
MutStatusDiffOf(statuses, reported) == statuses
\* diff: the entries of serviceStatuses with no reported entry or a reported
\* entry with another CurrentReleaseID.
StatusDiffOf(statuses, reported) ==
  LET keys == {s \in DOMAIN statuses :
                 s \notin DOMAIN reported \/ reported[s] # statuses[s]}
  IN [s \in keys |-> statuses[s]]

\* The read-lock section: diff and copy are built from one snapshot.
StatusDiffAt(at) ==
  /\ statusPc = at
  /\ statusDiff' = StatusDiffOf(serviceStatuses, reportedServiceStatuses)
  /\ statusCopy' = serviceStatuses
  /\ statusTodo' = DOMAIN statusDiff'
  /\ statusFailed' = FALSE
  /\ statusPc' = "publish"
  /\ UNCHANGED <<statusDelivered, reporterVars, appLoopVars, stateLoopVars,
                 offReporterVars>>

\* The section as one step, RLock to RUnlock.
StatusDiff == StatusDiffAt("diff") /\ UNCHANGED <<stopVars, lockVars, callerVars>>

\* One iteration of the range loop over diff whose reportServiceStatus call
\* returned nil (Go ranges over a map in no fixed order).
StatusPublished(s) ==
  /\ statusPc = "publish"
  /\ s \in statusTodo
  /\ statusTodo' = statusTodo \ {s}
  /\ UNCHANGED <<statusPc, statusDiff, statusCopy, statusFailed, reporterVars,
                 appLoopVars, stateLoopVars, applierVars, mergeVars, extraVars>>

StatusPublishOk(s) == StatusPublished(s) /\ UNCHANGED statusDelivered

\* The same step, with the call written to the history.
StatusPublishOkLogged(s) ==
  /\ StatusPublished(s)
  /\ statusDelivered' = statusDelivered \cup {<<s, statusDiff[s]>>}

\* Variant: the label cont placed before the assignment.
MutStatusAfterError(reported, copy) == copy
\* reportedServiceStatuses after an iteration's call returned an error: the
\* goto cont jumps over the assignment of line 186.
StatusAfterError(reported, copy) == reported

\* One iteration whose call returned an error: goto cont.
StatusPublishFail(s) ==
  /\ statusPc = "publish"
  /\ s \in statusTodo
  /\ statusTodo' = statusTodo \ {s}
  /\ statusFailed' = TRUE
  /\ statusPc' = "cont"
  /\ reportedServiceStatuses' = StatusAfterError(reportedServiceStatuses, statusCopy)
  /\ UNCHANGED <<desiredApplicationRelease, desiredApplicationServiceNames,
                 reportedApplicationRelease, serviceStatuses, serviceStates,
                 reportedServiceStates, started>>
  /\ UNCHANGED <<statusDiff, statusCopy, statusDelivered, appLoopVars,
                 stateLoopVars, applierVars, mergeVars, extraVars>>

\* The range loop ran to its end: r.reportedServiceStatuses = copy.
StatusCommit ==
  /\ statusPc = "publish"
  /\ statusTodo = {}
  /\ reportedServiceStatuses' = statusCopy
  /\ statusPc' = "cont"
  /\ UNCHANGED <<desiredApplicationRelease, desiredApplicationServiceNames,
                 reportedApplicationRelease, serviceStatuses, serviceStates,
                 reportedServiceStates, started>>
  /\ UNCHANGED <<statusDiff, statusCopy, statusTodo, statusFailed, statusDelivered,
                 appLoopVars, stateLoopVars, applierVars, mergeVars, extraVars>>

\* cont: the ticker fires; diff and copy are made anew in the next iteration.
StatusTick ==
  /\ statusPc = "cont"
  /\ statusPc' = "diff"
  /\ statusDiff' = EmptyMap
  /\ statusCopy' = EmptyMap
  /\ statusTodo' = {}
  /\ statusFailed' = FALSE
  /\ UNCHANGED <<statusDelivered, reporterVars, appLoopVars, stateLoopVars,
                 applierVars, mergeVars, extraVars>>

\* ------------------------------------------------- serviceStateReporter

\* diff: no reported entry, or State or ErrorMessage differ.
StateDiffOf(states, reported) ==
  LET keys == {s \in DOMAIN states :
                 s \notin DOMAIN reported
                 \/ reported[s].State # states[s].State
                 \/ reported[s].ErrorMessage # states[s].ErrorMessage}
  IN [s \in keys |-> states[s]]

StateDiffAt(at) ==
  /\ statePc = at
  /\ stateDiff' = StateDiffOf(serviceStates, reportedServiceStates)
  /\ stateCopy' = serviceStates
  /\ stateTodo' = DOMAIN stateDiff'
  /\ stateFailed' = FALSE
  /\ statePc' = "publish"
  /\ UNCHANGED <<reporterVars, appLoopVars, statusLoopVars, offReporterVars>>

\* The section as one step, RLock to RUnlock.
StateDiff == StateDiffAt("diff") /\ UNCHANGED <<stopVars, lockVars, callerVars>>

StatePublishOk(s) ==
  /\ statePc = "publish"
  /\ s \in stateTodo
  /\ stateTodo' = stateTodo \ {s}
  /\ UNCHANGED <<statePc, stateDiff, stateCopy, stateFailed, reporterVars,
                 appLoopVars, statusLoopVars, applierVars, mergeVars, extraVars>>

\* Variant: the label cont placed before the assignment.
MutStateAfterError(reported, copy) == copy
\* reportedServiceStates after an iteration's call returned an error: the goto
\* cont jumps over the assignment of line 237.
StateAfterError(reported, copy) == reported

StatePublishFail(s) ==
  /\ statePc = "publish"
  /\ s \in stateTodo
  /\ stateTodo' = stateTodo \ {s}
  /\ stateFailed' = TRUE
  /\ statePc' = "cont"
  /\ reportedServiceStates' = StateAfterError(reportedServiceStates, stateCopy)
  /\ UNCHANGED <<desiredApplicationRelease, desiredApplicationServiceNames,
                 reportedApplicationRelease, serviceStatuses, reportedServiceStatuses,
                 serviceStates, started>>
  /\ UNCHANGED <<stateDiff, stateCopy, appLoopVars, statusLoopVars,
                 applierVars, mergeVars, extraVars>>

StateCommit ==
  /\ statePc = "publish"
  /\ stateTodo = {}
  /\ reportedServiceStates' = stateCopy
  /\ statePc' = "cont"
  /\ UNCHANGED <<desiredApplicationRelease, desiredApplicationServiceNames,
                 reportedApplicationRelease, serviceStatuses, reportedServiceStatuses,
                 serviceStates, started>>
  /\ UNCHANGED <<stateDiff, stateCopy, stateTodo, stateFailed, appLoopVars,
                 statusLoopVars, applierVars, mergeVars, extraVars>>

StateTick ==
  /\ statePc = "cont"
  /\ statePc' = "diff"
  /\ stateDiff' = EmptyMap
  /\ stateCopy' = EmptyMap
  /\ stateTodo' = {}
  /\ stateFailed' = FALSE
  /\ UNCHANGED <<reporterVars, appLoopVars, statusLoopVars, applierVars, mergeVars, extraVars>>

\* ------------------------------------------------------------ r.lock
\* The Reporter at the grain of its lock operations: a read section is two
\* steps, RLock and the reads up to RUnlock; SetDesiredApplication is three,
\* Lock with the first assignment, the second assignment with Unlock, once.Do.

\* Variant: a reader does not wait for the writer.
MutCanRLock == TRUE
\* sync.RWMutex: RLock waits while a writer holds the lock.
CanRLock == lockWriter = 0

\* Lock waits while a writer or any reader holds the lock.
CanLock == lockWriter = 0 /\ lockReaders = {}

RLock(loop) ==
  /\ CanRLock
  /\ lockReaders' = lockReaders \cup {loop}
  /\ UNCHANGED lockWriter

RUnlock(loop) ==
  /\ lockReaders' = lockReaders \ {loop}
  /\ UNCHANGED lockWriter

\* Variant: the path that goes on to publish keeps the read lock.
MutUnlockPaths == {"reported", "quorum"}
\* The ways out of applicationStatusReporter's read section on which RUnlock
\* is called (lines 116, 122 and 126).
UnlockPaths == {"reported", "quorum", "pass"}

AppRLock ==
  /\ appPc = "gate"
  /\ appPc' = "rlocked"
  /\ RLock("app")
  /\ UNCHANGED <<releaseToReport, appGate, reporterVars, statusLoopVars,
                 stateLoopVars, offReporterVars, stopVars, callerVars>>

AppGateLocked ==
  /\ AppGateAt("rlocked")
  /\ IF appGate' \in UnlockPaths THEN RUnlock("app") ELSE UNCHANGED lockVars
  /\ UNCHANGED <<stopVars, callerVars>>

StatusRLock ==
  /\ statusPc = "diff"
  /\ statusPc' = "rlocked"
  /\ RLock("status")
  /\ UNCHANGED <<statusDiff, statusCopy, statusTodo, statusFailed, statusDelivered,
                 reporterVars, appLoopVars, stateLoopVars, offReporterVars,
                 stopVars, callerVars>>

StatusDiffLocked ==
  /\ StatusDiffAt("rlocked")
  /\ RUnlock("status")
  /\ UNCHANGED <<stopVars, callerVars>>

StateRLock ==
  /\ statePc = "diff"
  /\ statePc' = "rlocked"
  /\ RLock("state")
  /\ UNCHANGED <<stateDiff, stateCopy, stateTodo, stateFailed, reporterVars,
                 appLoopVars, statusLoopVars, offReporterVars, stopVars, callerVars>>

StateDiffLocked ==
  /\ StateDiffAt("rlocked")
  /\ RUnlock("state")
  /\ UNCHANGED <<stopVars, callerVars>>

\* SetServiceStatus and SetServiceState: Lock, one assignment, Unlock.
LockedSetServiceStatus(serviceName, currentReleaseID) ==
  CanLock /\ SetServiceStatus(serviceName, currentReleaseID)

LockedSetServiceState(serviceName, state) ==
  CanLock /\ SetServiceState(serviceName, state)

\* SetDesiredApplication, lines 73-74: Lock and the assignment of the release.
CallLock(c, release, serviceNames) ==
  /\ callerPc[c] = "idle"
  /\ CanLock
  /\ lockWriter' = c
  /\ desiredApplicationRelease' = release
  /\ callerArgs' = [callerArgs EXCEPT ![c] = <<release, serviceNames>>]
  /\ lastArgs' = <<release, serviceNames>>
  /\ callerPc' = [callerPc EXCEPT ![c] = "names"]
  /\ UNCHANGED <<desiredApplicationServiceNames, reportedApplicationRelease,
                 serviceStatuses, reportedServiceStatuses, serviceStates,
                 reportedServiceStates, started>>
  /\ UNCHANGED <<lockReaders, instances, appLoopVars, statusLoopVars, stateLoopVars,
                 offReporterVars, stopVars>>

\* Lines 75-76: the assignment of the names and Unlock.
CallNames(c) ==
  /\ callerPc[c] = "names"
  /\ desiredApplicationServiceNames' = callerArgs[c][2]
  /\ lockWriter' = 0
  /\ callerPc' = [callerPc EXCEPT ![c] = "once"]
  /\ UNCHANGED <<desiredApplicationRelease, reportedApplicationRelease,
                 serviceStatuses, reportedServiceStatuses, serviceStates,
                 reportedServiceStates, started>>
  /\ UNCHANGED <<lockReaders, callerArgs, lastArgs, instances, appLoopVars,
                 statusLoopVars, stateLoopVars, offReporterVars, stopVars>>

\* Variant: the function is run by every call.
MutOnceFires(done) == TRUE
\* sync.Once: Do runs its function if it has not been run.
OnceFires(done) == ~done

\* Lines 78-82: r.once.Do starts the three loops.
CallOnce(c) ==
  /\ callerPc[c] = "once"
  /\ callerPc' = [callerPc EXCEPT ![c] = "idle"]
  /\ callerArgs' = [callerArgs EXCEPT ![c] = NoArgs]
  /\ IF OnceFires(started)
     THEN /\ started' = TRUE
          /\ instances' = instances + 1
          /\ appPc' = StartLoop(appPc, "gate")
          /\ statusPc' = StartLoop(statusPc, "diff")
          /\ statePc' = StartLoop(statePc, "diff")
     ELSE UNCHANGED <<started, instances, appPc, statusPc, statePc>>
  /\ UNCHANGED <<desiredApplicationRelease, desiredApplicationServiceNames,
                 reportedApplicationRelease, serviceStatuses,
                 reportedServiceStatuses, serviceStates, reportedServiceStates>>
  /\ UNCHANGED <<releaseToReport, appGate>>
  /\ UNCHANGED <<statusDiff, statusCopy, statusTodo, statusFailed, statusDelivered>>
  /\ UNCHANGED <<stateDiff, stateCopy, stateTodo, stateFailed>>
  /\ UNCHANGED <<lastArgs, lockVars, offReporterVars, stopVars>>

\* ------------------------------------------------------- Reporter.Stop

\* Stop, line 98: r.cancel(); then the first receive is awaited.
StopCancel(c) ==
  /\ stopPc[c] = "idle"
  /\ cancelled' = TRUE
  /\ stopPc' = [stopPc EXCEPT ![c] = "recvApp"]
  /\ UNCHANGED <<reporterVars, appLoopVars, statusLoopVars, stateLoopVars,
                 offReporterVars, lockVars, callerVars>>

\* Variant: the loop returns without sending on its done channel.
MutAppExit ==
  /\ appPc = "cont"
  /\ cancelled
  /\ appPc' = "returned"
  /\ releaseToReport' = 0
  /\ appGate' = "none"
  /\ UNCHANGED <<reporterVars, statusLoopVars, stateLoopVars, offReporterVars,
                 stopVars, lockVars, callerVars>>
\* cont: the select takes <-r.ctx.Done() and the loop waits to send on
\* applicationStatusReporterDone.
AppExit ==
  /\ appPc = "cont"
  /\ cancelled
  /\ appPc' = "done"
  /\ releaseToReport' = 0
  /\ appGate' = "none"
  /\ UNCHANGED <<reporterVars, statusLoopVars, stateLoopVars, offReporterVars,
                 stopVars, lockVars, callerVars>>

StatusExit ==
  /\ statusPc = "cont"
  /\ cancelled
  /\ statusPc' = "done"
  /\ statusDiff' = EmptyMap
  /\ statusCopy' = EmptyMap
  /\ statusTodo' = {}
  /\ statusFailed' = FALSE
  /\ UNCHANGED <<statusDelivered, reporterVars, appLoopVars, stateLoopVars,
                 offReporterVars, stopVars, lockVars, callerVars>>

StateExit ==
  /\ statePc = "cont"
  /\ cancelled
  /\ statePc' = "done"
  /\ stateDiff' = EmptyMap
  /\ stateCopy' = EmptyMap
  /\ stateTodo' = {}
  /\ stateFailed' = FALSE
  /\ UNCHANGED <<reporterVars, appLoopVars, statusLoopVars, offReporterVars,
                 stopVars, lockVars, callerVars>>

\* Variant: the loop sends on its done channel again and again.
MutStopRecvApp(c) ==
  /\ stopPc[c] = "recvApp"
  /\ appPc = "done"
  /\ stopPc' = [stopPc EXCEPT ![c] = "recvStatus"]
  /\ UNCHANGED <<cancelled, appPc, releaseToReport, appGate, reporterVars,
                 statusLoopVars, stateLoopVars, offReporterVars, lockVars, callerVars>>
\* The done channels are unbuffered: a loop's send and Stop's receive are one
\* step, after which the loop returns.  Stop receives in the order of lines
\* 100-102.
StopRecvApp(c) ==
  /\ stopPc[c] = "recvApp"
  /\ appPc = "done"
  /\ appPc' = "returned"
  /\ stopPc' = [stopPc EXCEPT ![c] = "recvStatus"]
  /\ UNCHANGED <<cancelled, releaseToReport, appGate, reporterVars, statusLoopVars,
                 stateLoopVars, offReporterVars, lockVars, callerVars>>

StopRecvStatus(c) ==
  /\ stopPc[c] = "recvStatus"
  /\ statusPc = "done"
  /\ statusPc' = "returned"
  /\ stopPc' = [stopPc EXCEPT ![c] = "recvState"]
  /\ UNCHANGED <<cancelled, statusDiff, statusCopy, statusTodo, statusFailed,
                 statusDelivered, reporterVars, appLoopVars, stateLoopVars,
                 offReporterVars, lockVars, callerVars>>

\* The last receive: Stop returns.
StopRecvState(c) ==
  /\ stopPc[c] = "recvState"
  /\ statePc = "done"
  /\ statePc' = "returned"
  /\ stopPc' = [stopPc EXCEPT ![c] = "returned"]
  /\ UNCHANGED <<cancelled, stateDiff, stateCopy, stateTodo, stateFailed,
                 reporterVars, appLoopVars, statusLoopVars, offReporterVars,
                 lockVars, callerVars>>

\* ====================================================== bundle applier

\* A *models.Bundle: nil, or the fields the agent reads.
NilBundle == [nil |-> TRUE, applications |-> {}, desiredAgentVersion |-> 0]
\* var bundle models.Bundle: the zero value.
ZeroBundle == [nil |-> FALSE, applications |-> {}, desiredAgentVersion |-> 0]
Bundles == [nil : {FALSE}, applications : SUBSET Apps, desiredAgentVersion : Versions]

\* Bytes, as far as encoding/json tells them apart: not JSON at all, the
\* literal null, or an object.  Of an object: whether each field decodes
\* into its Go type, and the value it leaves in the target (on a type
\* mismatch json.Unmarshal records the error and goes on decoding, so the
\* rest of the struct is still filled in).
JsonBytesOf(kind, appsTyped, apps, versionTyped, version) ==
  [kind |-> kind, appsTyped |-> appsTyped, apps |-> apps,
   versionTyped |-> versionTyped, version |-> version]
JsonInvalid == JsonBytesOf("invalid", TRUE, {}, TRUE, 0)
JsonNull == JsonBytesOf("null", TRUE, {}, TRUE, 0)
JsonObjects ==
  {JsonBytesOf("object", at, a, vt, v) :
     at \in BOOLEAN, a \in SUBSET Apps, vt \in BOOLEAN, v \in Versions}
JsonBytes ==
  {JsonInvalid, JsonNull} \cup {o \in JsonObjects : ~o.versionTyped => o.version = 0}
\* The bundle file does not exist.
NoFile == JsonBytesOf("absent", TRUE, {}, TRUE, 0)

\* json.Unmarshal(bytes, &bundle) into a zero models.Bundle.
UnmarshalBundle(bytes) ==
  IF bytes.kind = "invalid" THEN [err |-> TRUE, bundle |-> ZeroBundle]
  ELSE IF bytes.kind = "null" THEN [err |-> FALSE, bundle |-> ZeroBundle]
  ELSE [err |-> ~bytes.appsTyped \/ ~bytes.versionTyped,
        bundle |-> [nil |-> FALSE,
                    applications |-> bytes.apps,
                    desiredAgentVersion |->
                      IF bytes.versionTyped THEN bytes.version ELSE 0]]

\* json.Unmarshal(bytes, &minimalBundle): only desiredAgentVersion is read.
UnmarshalMinimal(bytes) ==
  IF bytes.kind = "invalid" THEN [err |-> TRUE, desiredAgentVersion |-> 0]
  ELSE IF bytes.kind = "null" THEN [err |-> FALSE, desiredAgentVersion |-> 0]
  ELSE [err |-> ~bytes.versionTyped,
        desiredAgentVersion |-> IF bytes.versionTyped THEN bytes.version ELSE 0]

\* json.Marshal(bundle) of a *models.Bundle: a nil pointer encodes as null.
Marshal(b) ==
  IF b.nil THEN JsonNull
  ELSE JsonBytesOf("object", TRUE, b.applications, TRUE, b.desiredAgentVersion)

\* Variant: `bundle = *oldBundle` left out.
MutMergeBundle(oldBundle, bundleBytes) ==
  LET full == UnmarshalBundle(bundleBytes)
      minimal == UnmarshalMinimal(bundleBytes)
  IN IF ~full.err THEN full.bundle
     ELSE IF minimal.err THEN NilBundle
     ELSE [full.bundle EXCEPT !.desiredAgentVersion = minimal.desiredAgentVersion]
\* mergeBundle: the full parse, else the minimal one laid over the previous
\* bundle (over what the failed full parse left when there is none), else nil.
mergeBundle(oldBundle, bundleBytes) ==
  LET full == UnmarshalBundle(bundleBytes)
      minimal == UnmarshalMinimal(bundleBytes)
  IN IF ~full.err THEN full.bundle
     ELSE IF minimal.err THEN NilBundle
     ELSE [(IF ~oldBundle.nil THEN oldBundle ELSE full.bundle)
             EXCEPT !.desiredAgentVersion = minimal.desiredAgentVersion]

\* How the two parses of mergeBundle fare on the bytes.
ParseOf(bundleBytes) ==
  IF ~UnmarshalBundle(bundleBytes).err THEN "full"
  ELSE IF ~UnmarshalMinimal(bundleBytes).err THEN "minimal"
  ELSE "none"

\* Variant: the bundle is returned although writeFile failed.
MutDownloadLatestBundle(oldBundle, oldFile, fetchErr, bundleBytes, writeErr) ==
  IF fetchErr
  THEN [bundle |-> NilBundle, file |-> oldFile, did |-> "fetchError", parse |-> "none"]
  ELSE LET b == mergeBundle(oldBundle, bundleBytes)
       IN IF writeErr
          THEN [bundle |-> b, file |-> oldFile, did |-> "writeError",
                parse |-> ParseOf(bundleBytes)]
          ELSE [bundle |-> b, file |-> Marshal(b), did |-> "written",
                parse |-> ParseOf(bundleBytes)]
\* downloadLatestBundle: the bundle it returns, the bundle file it leaves and
\* what it did.  writeFile writes through a temporary file and a rename, so a
\* failed write leaves the file as it was.
downloadLatestBundle(oldBundle, oldFile, fetchErr, bundleBytes, writeErr) ==
  IF fetchErr
  THEN [bundle |-> NilBundle, file |-> oldFile, did |-> "fetchError", parse |-> "none"]
  ELSE LET b == mergeBundle(oldBundle, bundleBytes)
       IN IF writeErr
          THEN [bundle |-> NilBundle, file |-> oldFile, did |-> "writeError",
                parse |-> ParseOf(bundleBytes)]
          ELSE [bundle |-> b, file |-> Marshal(b), did |-> "written",
                parse |-> ParseOf(bundleBytes)]

NoCycle == [did |-> "none", parse |-> "none"]

\* The bundle file the agent may find at start: none, or any bytes (what an
\* earlier run wrote, null included, or what something else left there).
BootFiles == {NoFile} \cup JsonBytes

ApplierInit ==
  /\ file \in BootFiles
  /\ bundle = NilBundle
  /\ applierPc = "load"
  /\ fetched = FALSE
  /\ cycle = NoCycle
  /\ calls = << >>
  /\ supervisorApps = {}
  /\ lastGood = NilBundle

\* loadSavedBundle, the iteration that returns: no file, or a file that was
\* read and unmarshalled (an invalid one is discarded).
loadSavedBundle(saved) ==
  IF saved.kind = "absent" THEN NilBundle
  ELSE IF UnmarshalBundle(saved).err THEN NilBundle
  ELSE UnmarshalBundle(saved).bundle

\* Variant: the loaded bundle is not handed on.
MutAfterLoad(b) == "fetch"
\* runBundleApplier after loadSavedBundle: Supervisor.Set if a bundle was loaded.
AfterLoad(b) == IF b.nil THEN "fetch" ELSE "bootSet"

LoadSavedBundle ==
  /\ applierPc = "load"
  /\ bundle' = loadSavedBundle(file)
  /\ lastGood' = bundle'
  /\ applierPc' = AfterLoad(bundle')
  /\ UNCHANGED <<file, fetched, cycle, calls, supervisorApps>>
  /\ UNCHANGED <<reporterVars, appLoopVars, statusLoopVars, stateLoopVars, mergeVars, extraVars>>

\* loadSavedBundle, an iteration that fails (os.Stat or ReadFile error): goto cont.
LoadRetry ==
  /\ applierPc = "load"
  /\ applierPc' = "loadCont"
  /\ UNCHANGED <<file, bundle, fetched, cycle, calls, supervisorApps, lastGood>>
  /\ UNCHANGED <<reporterVars, appLoopVars, statusLoopVars, stateLoopVars, mergeVars, extraVars>>

LoadTick ==
  /\ applierPc = "loadCont"
  /\ applierPc' = "load"
  /\ UNCHANGED <<file, bundle, fetched, cycle, calls, supervisorApps, lastGood>>
  /\ UNCHANGED <<reporterVars, appLoopVars, statusLoopVars, stateLoopVars, mergeVars, extraVars>>

\* A downstream call of runBundleApplier with the current bundle.
Dispatch(at, name, next) ==
  /\ applierPc = at
  /\ calls' = Append(calls, name)
  /\ supervisorApps' =
       IF name = "Supervisor.Set" THEN bundle.applications ELSE supervisorApps
  /\ applierPc' = next
  /\ UNCHANGED <<file, bundle, fetched, cycle, lastGood>>
  /\ UNCHANGED <<reporterVars, appLoopVars, statusLoopVars, stateLoopVars, mergeVars, extraVars>>

\* a.supervisor.Set(*bundle, bundle.Applications) of line 214.
BootSupervisorSet == Dispatch("bootSet", "Supervisor.Set", "fetch")

\* bundle = a.downloadLatestBundle(bundle), and the test that follows it.
Download(fetchErr, bundleBytes, writeErr) ==
  LET got == downloadLatestBundle(bundle, file, fetchErr, bundleBytes, writeErr)
  IN /\ applierPc = "fetch"
     /\ fetched' = TRUE
     /\ bundle' = got.bundle
     /\ file' = got.file
     /\ cycle' = [did |-> got.did, parse |-> got.parse]
     /\ calls' = << >>
     /\ lastGood' = IF got.did = "written" /\ got.parse = "full"
                    THEN got.bundle ELSE lastGood
     /\ applierPc' = IF got.bundle.nil THEN "cont" ELSE "supervisorSet"
     /\ UNCHANGED supervisorApps
     /\ UNCHANGED <<reporterVars, appLoopVars, statusLoopVars, stateLoopVars, mergeVars, extraVars>>

DownloadFetchError == Download(TRUE, JsonInvalid, FALSE)

\* Variant: the garbage collector is handed the bundle first.
MutSupervisorSet == Dispatch("supervisorSet", "GC.SetBundle", "gcSetBundle")
SupervisorSet == Dispatch("supervisorSet", "Supervisor.Set", "gcSetBundle")
GCSetBundle == Dispatch("gcSetBundle", "GC.SetBundle", "setDesiredVersion")
UpdaterSetDesiredVersion ==
  Dispatch("setDesiredVersion", "Updater.SetDesiredVersion", "metricsSetBundle")
MetricsPusherSetBundle ==
  Dispatch("metricsSetBundle", "MetricsPusher.SetBundle", "cont")

\* The 5 s ticker of runBundleApplier.
ApplierTick ==
  /\ applierPc = "cont"
  /\ applierPc' = "fetch"
  /\ UNCHANGED <<file, bundle, fetched, cycle, calls, supervisorApps, lastGood>>
  /\ UNCHANGED <<reporterVars, appLoopVars, statusLoopVars, stateLoopVars, mergeVars, extraVars>>

\* The applier before Run: the variables of the applier in the other
\* specifications.
ApplierIdle ==
  /\ file = NoFile
  /\ bundle = NilBundle
  /\ applierPc = "load"
  /\ fetched = FALSE
  /\ cycle = NoCycle
  /\ calls = << >>
  /\ supervisorApps = {}
  /\ lastGood = NilBundle

\* ------------------------------------------- mergeBundle on its inputs
MergeIdle ==
  /\ mergeOld = NilBundle
  /\ mergeBytes = JsonInvalid
  /\ mergeResult = NilBundle
  /\ mergeDone = FALSE

MergeInit ==
  /\ mergeOld \in Bundles \cup {NilBundle}
  /\ mergeBytes \in JsonBytes
  /\ mergeResult = NilBundle
  /\ mergeDone = FALSE

MergeApply ==
  /\ ~mergeDone
  /\ mergeResult' = mergeBundle(mergeOld, mergeBytes)
  /\ mergeDone' = TRUE
  /\ UNCHANGED <<mergeOld, mergeBytes>>
  /\ UNCHANGED <<reporterVars, appLoopVars, statusLoopVars, stateLoopVars, applierVars,
                 extraVars>>

\* ============================================ customcommands.Validator

\* ErrCustomCommandsAreDisabled, by its message.
ErrCustomCommandsAreDisabled == "custom commands are disabled on this device"

\* Variant: both fields have to be set for the service to be refused.
MutValidate(disabled, s) ==
  IF disabled
  THEN IF Len(s.Command) # 0 /\ Len(s.Entrypoint) # 0
       THEN ErrCustomCommandsAreDisabled
       ELSE "nil"
  ELSE "nil"
\* Validate, with the value GetDisableCustomCommands() returns to it.
Validate(disabled, s) ==
  IF disabled
  THEN IF Len(s.Command) # 0 \/ Len(s.Entrypoint) # 0
       THEN ErrCustomCommandsAreDisabled
       ELSE "nil"
  ELSE "nil"

\* A Validate call: the variable is read in the call.
ValidateCall(s) ==
  /\ validated' = s
  /\ disabledAtCall' = disableCustomCommands
  /\ validateResult' = Validate(disableCustomCommands, s)
  /\ UNCHANGED disableCustomCommands
  /\ UNCHANGED <<coreVars, registerVars, stopVars, lockVars, callerVars>>

\* The device variable is switched, between calls.
SetDisableCustomCommands(b) ==
  /\ b # disableCustomCommands
  /\ disableCustomCommands' = b
  /\ UNCHANGED <<validated, validateResult, disabledAtCall>>
  /\ UNCHANGED <<coreVars, registerVars, stopVars, lockVars, callerVars>>

\* ==================================================== Agent.Initialize

\* The register response before RegisterDevice has answered.
NoResponse == [DeviceID |-> 0, DeviceAccessKeyValue |-> 0]

\* A fresh state directory and an agent process entering Initialize.
RegisterInit ==
  /\ accessKeyFile = 0
  /\ deviceIDFile = 0
  /\ initPc = "stat"
  /\ initError = "none"
  /\ registerDeviceResponse = NoResponse
  /\ clientAccessKey = 0
  /\ clientDeviceID = 0
  /\ registrations = 0
  /\ crashedAt = "none"

\* Initialize returns err.
InitFail(err) ==
  /\ initPc' = "failed"
  /\ initError' = err

\* os.Stat(access-key): the file exists, or it does not and register() is called.
InitStat ==
  /\ initPc = "stat"
  /\ initPc' = IF accessKeyFile # 0 THEN "readAccessKey" ELSE "registerDevice"
  /\ UNCHANGED <<accessKeyFile, deviceIDFile, initError, registerDeviceResponse,
                 clientAccessKey, clientDeviceID, registrations, crashedAt>>
  /\ UNCHANGED <<coreVars, validateVars, stopVars, lockVars, callerVars>>

\* os.Stat fails with an error other than IsNotExist.
InitStatError ==
  /\ initPc = "stat"
  /\ InitFail("failed to check for access key")
  /\ UNCHANGED <<accessKeyFile, deviceIDFile, registerDeviceResponse,
                 clientAccessKey, clientDeviceID, registrations, crashedAt>>
  /\ UNCHANGED <<coreVars, validateVars, stopVars, lockVars, callerVars>>

\* a.client.RegisterDevice answers: the API has made a new device and a key.
RegisterDeviceOk(key) ==
  /\ initPc = "registerDevice"
  /\ registrations < MaxDevice
  /\ registrations' = registrations + 1
  /\ UNCHANGED crashedAt
  /\ registerDeviceResponse' =
       [DeviceID |-> registrations + 1, DeviceAccessKeyValue |-> key]
  /\ initPc' = "writeAccessKey"
  /\ UNCHANGED <<accessKeyFile, deviceIDFile, initError, clientAccessKey,
                 clientDeviceID>>
  /\ UNCHANGED <<coreVars, validateVars, stopVars, lockVars, callerVars>>

RegisterDeviceFail ==
  /\ initPc = "registerDevice"
  /\ InitFail("failed to register device")
  /\ UNCHANGED <<accessKeyFile, deviceIDFile, registerDeviceResponse,
                 clientAccessKey, clientDeviceID, registrations, crashedAt>>
  /\ UNCHANGED <<coreVars, validateVars, stopVars, lockVars, callerVars>>

\* a.writeFile(DeviceAccessKeyValue, access-key): the first write of register().
WriteAccessKey ==
  /\ initPc = "writeAccessKey"
  /\ accessKeyFile' = registerDeviceResponse.DeviceAccessKeyValue
  /\ initPc' = "writeDeviceID"
  /\ UNCHANGED <<deviceIDFile, initError, registerDeviceResponse, clientAccessKey,
                 clientDeviceID, registrations, crashedAt>>
  /\ UNCHANGED <<coreVars, validateVars, stopVars, lockVars, callerVars>>

\* a.writeFile(DeviceID, device-id): the second write of register().
WriteDeviceID ==
  /\ initPc = "writeDeviceID"
  /\ deviceIDFile' = registerDeviceResponse.DeviceID
  /\ initPc' = "readAccessKey"
  /\ UNCHANGED <<accessKeyFile, initError, registerDeviceResponse, clientAccessKey,
                 clientDeviceID, registrations, crashedAt>>
  /\ UNCHANGED <<coreVars, validateVars, stopVars, lockVars, callerVars>>

\* Either writeFile fails (MkdirAll or WriteFileAtomic): the file is not
\* written and register() returns the error.
WriteFileFail ==
  /\ initPc \in {"writeAccessKey", "writeDeviceID"}
  /\ InitFail("failed to register device")
  /\ UNCHANGED <<accessKeyFile, deviceIDFile, registerDeviceResponse,
                 clientAccessKey, clientDeviceID, registrations, crashedAt>>
  /\ UNCHANGED <<coreVars, validateVars, stopVars, lockVars, callerVars>>

\* ioutil.ReadFile(access-key).
ReadAccessKey ==
  /\ initPc = "readAccessKey"
  /\ IF accessKeyFile = 0
     THEN InitFail("failed to read access key")
     ELSE initPc' = "readDeviceID" /\ UNCHANGED initError
  /\ UNCHANGED <<accessKeyFile, deviceIDFile, registerDeviceResponse,
                 clientAccessKey, clientDeviceID, registrations, crashedAt>>
  /\ UNCHANGED <<coreVars, validateVars, stopVars, lockVars, callerVars>>

\* ioutil.ReadFile(device-id), then SetAccessKey and SetDeviceID.
ReadDeviceID ==
  /\ initPc = "readDeviceID"
  /\ IF deviceIDFile = 0
     THEN /\ InitFail("failed to read device ID")
          /\ UNCHANGED <<clientAccessKey, clientDeviceID>>
     ELSE /\ initPc' = "listen"
          /\ clientAccessKey' = accessKeyFile
          /\ clientDeviceID' = deviceIDFile
          /\ UNCHANGED initError
  /\ UNCHANGED <<accessKeyFile, deviceIDFile, registerDeviceResponse, registrations, crashedAt>>
  /\ UNCHANGED <<coreVars, validateVars, stopVars, lockVars, callerVars>>

\* net.Listen succeeds (Initialize returns nil) or the port is busy.
Listen(busy) ==
  /\ initPc = "listen"
  /\ initPc' = IF busy THEN "listenCont" ELSE "done"
  /\ UNCHANGED <<accessKeyFile, deviceIDFile, initError, registerDeviceResponse,
                 clientAccessKey, clientDeviceID, registrations, crashedAt>>
  /\ UNCHANGED <<coreVars, validateVars, stopVars, lockVars, callerVars>>

\* <-ticker.C of the listener loop.
ListenTick ==
  /\ initPc = "listenCont"
  /\ initPc' = "listen"
  /\ UNCHANGED <<accessKeyFile, deviceIDFile, initError, registerDeviceResponse,
                 clientAccessKey, clientDeviceID, registrations, crashedAt>>
  /\ UNCHANGED <<coreVars, validateVars, stopVars, lockVars, callerVars>>

\* The agent process dies, at any point; the files stay, its memory is lost.
Crash ==
  /\ initPc \notin {"down", "failed"}
  /\ initPc' = "down"
  /\ crashedAt' = initPc
  /\ registerDeviceResponse' = NoResponse
  /\ clientAccessKey' = 0
  /\ clientDeviceID' = 0
  /\ UNCHANGED <<accessKeyFile, deviceIDFile, initError, registrations>>
  /\ UNCHANGED <<coreVars, validateVars, stopVars, lockVars, callerVars>>

\* The agent is started again, after a crash or after Initialize failed.
Restart ==
  /\ initPc \in {"down", "failed"}
  /\ initPc' = "stat"
  /\ initError' = "none"
  /\ registerDeviceResponse' = NoResponse
  /\ clientAccessKey' = 0
  /\ clientDeviceID' = 0
  /\ UNCHANGED <<accessKeyFile, deviceIDFile, registrations, crashedAt>>
  /\ UNCHANGED <<coreVars, validateVars, stopVars, lockVars, callerVars>>

\* The variables of Initialize in the other specifications.
RegisterIdle == RegisterInit

\* The validator before any call, custom commands allowed.
ValidateIdle ==
  /\ disableCustomCommands = FALSE
  /\ validated = NoService
  /\ validateResult = "none"
  /\ disabledAtCall = FALSE

\* NewReporter: the context is live, no one is in Stop.
StopIdle ==
  /\ cancelled = FALSE
  /\ stopPc = [c \in StopCallers |-> "idle"]

\* NewReporter: the lock is free, no call is in progress, once has not run.
LockIdle ==
  /\ lockWriter = 0
  /\ lockReaders = {}
  /\ callerPc = [c \in Callers |-> "idle"]
  /\ callerArgs = [c \in Callers |-> NoArgs]
  /\ lastArgs = NoArgs
  /\ instances = 0

ExtraIdle == RegisterIdle /\ ValidateIdle /\ StopIdle /\ LockIdle

\* ====================================================== specifications

\* The application-status and service-status side of one Reporter.  The
\* service-state loop reads and writes only serviceStates and
\* reportedServiceStates, which nothing here reads: it runs in SweepSpec.
Init == ReporterInit /\ ApplierIdle /\ MergeIdle /\ ExtraIdle

Next ==
  \/ \E r \in Releases, names \in SUBSET Services : SetDesiredApplication(r, names)
  \/ \E s \in Services, r \in Releases : SetServiceStatus(s, r)
  \/ AppGate
  \/ AppPublishOk
  \/ AppPublishFail
  \/ AppTick
  \/ StatusDiff
  \/ \E s \in Services : StatusPublishOk(s)
  \/ \E s \in Services : StatusPublishFail(s)
  \/ StatusCommit
  \/ StatusTick

Spec == Init /\ [][Next]_vars

\* Spec with the history of the successful reportServiceStatus calls.
OrderNext ==
  \/ \E r \in Releases, names \in SUBSET Services : SetDesiredApplication(r, names)
  \/ \E s \in Services, r \in Releases : SetServiceStatus(s, r)
  \/ AppGate
  \/ AppPublishOk
  \/ AppPublishFail
  \/ AppTick
  \/ StatusDiff
  \/ \E s \in Services : StatusPublishOkLogged(s)
  \/ \E s \in Services : StatusPublishFail(s)
  \/ StatusCommit
  \/ StatusTick

OrderSpec == Init /\ [][OrderNext]_vars

\* The application-status loop of a Reporter whose goroutine keeps being
\* scheduled: the gate is evaluated and the ticker fires (weak fairness), a
\* reportApplicationStatus call returns, its context having a one-minute
\* deadline (weak fairness), and the call does not fail forever (strong
\* fairness of the successful return).
AppLiveNext ==
  \/ \E r \in Releases, names \in SUBSET Services : SetDesiredApplication(r, names)
  \/ \E s \in Services, r \in Releases : SetServiceStatus(s, r)
  \/ AppGate
  \/ AppPublishOk
  \/ AppPublishFail
  \/ AppTick

AppLiveFairness ==
  /\ WF_vars(AppGate)
  /\ WF_vars(AppTick)
  /\ WF_vars(AppPublishOk \/ AppPublishFail)
  /\ SF_vars(AppPublishOk)

AppLiveSpec == Init /\ [][AppLiveNext]_vars /\ AppLiveFairness

\* The service-status loop of a Reporter whose goroutine keeps being
\* scheduled: the diff is computed, the commit made and the ticker fires (weak
\* fairness), a reportServiceStatus call returns (weak fairness), and for no
\* service do the calls fail forever (strong fairness of each service's
\* successful return; Go ranges over diff in an order that varies from sweep
\* to sweep, so every service of diff keeps being reached).
StatusLiveNext ==
  \/ SetDesiredApplication(1, Services)
  \/ \E s \in Services, r \in Releases : SetServiceStatus(s, r)
  \/ StatusDiff
  \/ \E s \in Services : StatusPublishOk(s)
  \/ \E s \in Services : StatusPublishFail(s)
  \/ StatusCommit
  \/ StatusTick

StatusLiveFairness ==
  /\ WF_vars(StatusDiff)
  /\ WF_vars(StatusCommit)
  /\ WF_vars(StatusTick)
  /\ WF_vars(\E s \in Services : StatusPublishOk(s) \/ StatusPublishFail(s))
  /\ \A s \in Services : SF_vars(StatusPublishOk(s))

StatusLiveSpec == Init /\ [][StatusLiveNext]_vars /\ StatusLiveFairness

\* The two sweeping loops of one Reporter, service status and service state.
\* Neither reads the desired release or the desired names, so one
\* SetDesiredApplication call, which starts them, stands for all.
SweepNext ==
  \/ SetDesiredApplication(1, Services)
  \/ \E s \in Services, r \in Releases : SetServiceStatus(s, r)
  \/ \E s \in StateServices, v \in ServiceStateValues : SetServiceState(s, v)
  \/ StatusDiff
  \/ \E s \in Services : StatusPublishOk(s)
  \/ \E s \in Services : StatusPublishFail(s)
  \/ StatusCommit
  \/ StatusTick
  \/ StateDiff
  \/ \E s \in StateServices : StatePublishOk(s)
  \/ \E s \in StateServices : StatePublishFail(s)
  \/ StateCommit
  \/ StateTick

SweepSpec == Init /\ [][SweepNext]_vars

\* runBundleApplier from the start of the agent.
ApplierSpecInit == ReporterInit /\ ApplierInit /\ MergeIdle /\ ExtraIdle

ApplierNext ==
  \/ LoadSavedBundle
  \/ LoadRetry
  \/ LoadTick
  \/ BootSupervisorSet
  \/ DownloadFetchError
  \/ \E bytes \in JsonBytes, writeErr \in BOOLEAN : Download(FALSE, bytes, writeErr)
  \/ SupervisorSet
  \/ GCSetBundle
  \/ UpdaterSetDesiredVersion
  \/ MetricsPusherSetBundle
  \/ ApplierTick

ApplierSpec == ApplierSpecInit /\ [][ApplierNext]_vars

\* mergeBundle applied to every pair of a previous bundle and a payload.
MergeSpecInit == ReporterInit /\ ApplierIdle /\ MergeInit /\ ExtraIdle

MergeNext == MergeApply

MergeSpec == MergeSpecInit /\ [][MergeNext]_vars

\* One Reporter from NewReporter to Stop, at the grain of its lock
\* operations, with its three loops.  Neither the lock nor the cancellation
\* reads the data, so one service, one release and one caller stand for all;
\* Stop is called by one goroutine.
StopNext ==
  \/ CallLock(1, 1, {1})
  \/ CallNames(1)
  \/ CallOnce(1)
  \/ LockedSetServiceStatus(1, 1)
  \/ LockedSetServiceState(1, Running)
  \/ AppRLock
  \/ AppGateLocked
  \/ AppPublishOk
  \/ AppPublishFail
  \/ AppTick
  \/ AppExit
  \/ StatusRLock
  \/ StatusDiffLocked
  \/ StatusPublishOk(1)
  \/ StatusPublishFail(1)
  \/ StatusCommit
  \/ StatusTick
  \/ StatusExit
  \/ StateRLock
  \/ StateDiffLocked
  \/ StatePublishOk(1)
  \/ StatePublishFail(1)
  \/ StateCommit
  \/ StateTick
  \/ StateExit
  \/ StopCancel(1)
  \/ StopRecvApp(1)
  \/ StopRecvStatus(1)
  \/ StopRecvState(1)

\* The scheduling the termination of Stop rests on.  Each goroutine keeps
\* running: a step that nothing can disable is weakly fair (the reads of a
\* section, the return of a report call, whose context is cancelled or has a
\* deadline, the commit, Stop's receives, the rest of a SetDesiredApplication
\* call).  RLock is strongly fair (sync.RWMutex does not starve readers), and
\* so is the <-r.ctx.Done() case of a select whose other case, the ticker, is
\* ready once a second (Go picks among the ready cases at random).
StopFairness ==
  /\ WF_vars(CallNames(1)) /\ WF_vars(CallOnce(1))
  /\ SF_vars(AppRLock) /\ SF_vars(StatusRLock) /\ SF_vars(StateRLock)
  /\ WF_vars(AppGateLocked) /\ WF_vars(StatusDiffLocked) /\ WF_vars(StateDiffLocked)
  /\ WF_vars(AppPublishOk \/ AppPublishFail)
  /\ WF_vars(StatusPublishOk(1) \/ StatusPublishFail(1))
  /\ WF_vars(StatePublishOk(1) \/ StatePublishFail(1))
  /\ WF_vars(StatusCommit) /\ WF_vars(StateCommit)
  /\ WF_vars(AppTick) /\ WF_vars(StatusTick) /\ WF_vars(StateTick)
  /\ SF_vars(AppExit) /\ SF_vars(StatusExit) /\ SF_vars(StateExit)
  /\ WF_vars(StopRecvApp(1)) /\ WF_vars(StopRecvStatus(1))
  /\ WF_vars(StopRecvState(1))

StopSpec == Init /\ [][StopNext]_vars /\ StopFairness

\* The same Reporter with Stop called by several goroutines, at any time:
\* before SetDesiredApplication, while another Stop waits, after one returned.
StopAgainNext ==
  \/ StopNext
  \/ \E c \in StopCallers : StopCancel(c)
  \/ \E c \in StopCallers : StopRecvApp(c)
  \/ \E c \in StopCallers : StopRecvStatus(c)
  \/ \E c \in StopCallers : StopRecvState(c)

StopAgainSpec == Init /\ [][StopAgainNext]_vars

\* Concurrent SetDesiredApplication calls and the application-status loop, at
\* the grain of the lock operations.
LockNext ==
  \/ \E c \in Callers, r \in Releases, names \in SUBSET Services :
       CallLock(c, r, names)
  \/ \E c \in Callers : CallNames(c)
  \/ \E c \in Callers : CallOnce(c)
  \/ \E s \in Services, r \in Releases : LockedSetServiceStatus(s, r)
  \/ AppRLock
  \/ AppGateLocked
  \/ AppPublishOk
  \/ AppPublishFail
  \/ AppTick

LockSpec == Init /\ [][LockNext]_vars

\* Validate calls on any service while the device variable changes.
ValidateSpecInit ==
  /\ ReporterInit /\ ApplierIdle /\ MergeIdle
  /\ RegisterIdle /\ ValidateIdle /\ StopIdle /\ LockIdle

ValidateNext ==
  \/ \E s \in ValidatedServices : ValidateCall(s)
  \/ \E b \in BOOLEAN : SetDisableCustomCommands(b)

ValidateSpec == ValidateSpecInit /\ [][ValidateNext]_vars

\* Initialize across crashes and restarts of the agent process.
RegisterSpecInit ==
  /\ ReporterInit /\ ApplierIdle /\ MergeIdle
  /\ RegisterInit /\ ValidateIdle /\ StopIdle /\ LockIdle

RegisterNext ==
  \/ InitStat
  \/ InitStatError
  \/ \E key \in AccessKeys : RegisterDeviceOk(key)
  \/ RegisterDeviceFail
  \/ WriteAccessKey
  \/ WriteDeviceID
  \/ WriteFileFail
  \/ ReadAccessKey
  \/ ReadDeviceID
  \/ \E busy \in BOOLEAN : Listen(busy)
  \/ ListenTick
  \/ Crash
  \/ Restart

RegisterSpec == RegisterSpecInit /\ [][RegisterNext]_vars

\* ============================================================== claims

\* The step in which applicationStatusReporter leaves the gate and starts a
\* reportApplicationStatus call.
AppPublishStarts == appPc # "publish" /\ appPc' = "publish"

\* C1 (quorum gate): a reportApplicationStatus(app, R) call starts only in a
\* tick whose gate check saw R as the desired release and, for every name in
\* desiredApplicationServiceNames, an entry of serviceStatuses carrying R.
C1_QuorumGate ==
  [][AppPublishStarts =>
       /\ releaseToReport' = desiredApplicationRelease
       /\ \A n \in desiredApplicationServiceNames :
            /\ n \in DOMAIN serviceStatuses
            /\ serviceStatuses[n] = releaseToReport']_vars

\* C1 witness: a publish in flight for a desired set of two services that both
\* carry the release.
C1_Witness ==
  /\ appPc = "publish"
  /\ Cardinality(desiredApplicationServiceNames) >= 2
  /\ releaseToReport = desiredApplicationRelease
  /\ \A n \in desiredApplicationServiceNames :
       n \in DOMAIN serviceStatuses /\ serviceStatuses[n] = releaseToReport

\* C2 (as claimed): a reportApplicationStatus(app, R) call starts only after,
\* for every desired service, a reportServiceStatus call carrying R has
\* returned successfully.
C2_Original ==
  [][AppPublishStarts =>
       \A n \in desiredApplicationServiceNames :
         <<n, releaseToReport'>> \in statusDelivered]_vars

\* C3 (no duplicate publish): while the reported release equals the desired
\* one and the desired one stays, no reportApplicationStatus call starts.
C3_NoDuplicatePublish ==
  [][(/\ reportedApplicationRelease = desiredApplicationRelease
      /\ desiredApplicationRelease' = desiredApplicationRelease)
     => ~AppPublishStarts]_vars

\* C3 witness: a release was published and committed, and a later tick found
\* it reported and went to cont without a call.
C3_Witness ==
  /\ appPc = "cont"
  /\ appGate = "reported"
  /\ reportedApplicationRelease \in Releases
  /\ reportedApplicationRelease = desiredApplicationRelease
  /\ DOMAIN serviceStatuses # {}

\* The services of the sweep's snapshot that differ from the committed
\* snapshot: no entry there, or another CurrentReleaseID.
StatusDiffering ==
  {s \in DOMAIN statusCopy :
     s \notin DOMAIN reportedServiceStatuses
     \/ reportedServiceStatuses[s] # statusCopy[s]}

\* The services reportServiceStatus has been called for in this sweep.
StatusCalled == DOMAIN statusDiff \ statusTodo

\* C4 (as claimed): when a sweep of serviceStatusReporter ends, the services
\* reportServiceStatus was called for are exactly those differing from the
\* committed snapshot.
C4_Original ==
  [][(statusPc = "publish" /\ statusPc' = "cont")
     => StatusCalled' = StatusDiffering]_vars

\* C4 (amended): the sweep iterates over exactly the differing services, calls
\* reportServiceStatus for none but those, and has called it for all of them
\* when it ends without a failed call.
C4_DiffCorrect ==
  [][statusPc = "publish" =>
       /\ DOMAIN statusDiff = StatusDiffering
       /\ \A s \in DOMAIN statusDiff : statusDiff[s] = statusCopy[s]
       /\ StatusCalled' \subseteq StatusDiffering
       /\ (statusPc' = "cont" /\ ~statusFailed' => StatusCalled' = StatusDiffering)]_vars

\* C4 witness: a sweep ended without failure after publishing one service
\* while another, equal to the committed snapshot, was left out.
C4_Witness ==
  /\ statusPc = "cont"
  /\ ~statusFailed
  /\ StatusCalled # {}
  /\ StatusCalled # DOMAIN statusCopy
  /\ reportedServiceStatuses = statusCopy

MinimalOnly(bytes) == bytes.kind = "object" /\ ~bytes.appsTyped /\ bytes.versionTyped

\* C6 (bundle merge preservation): for a previous bundle B and a payload that
\* only parses as the minimal projection with version v, mergeBundle returns B
\* with desiredAgentVersion v.
C6_MergePreserves ==
  (mergeDone /\ ~mergeOld.nil /\ MinimalOnly(mergeBytes)) =>
    /\ ~mergeResult.nil
    /\ mergeResult.applications = mergeOld.applications
    /\ mergeResult.desiredAgentVersion = mergeBytes.version

\* C6 witness: a merge of a bundle with applications and a minimal-only payload
\* that decoded other applications and carries another version.
C6_Witness ==
  /\ mergeDone /\ ~mergeOld.nil /\ MinimalOnly(mergeBytes)
  /\ mergeOld.applications = Apps
  /\ mergeBytes.apps # mergeOld.applications
  /\ mergeBytes.version # mergeOld.desiredAgentVersion
  /\ mergeResult.applications = Apps

\* C7 (as claimed): the applications Supervisor.Set receives in a cycle whose
\* payload is minimal-only are those of the last bundle parsed in full or
\* loaded at boot (one that had applications to forget).
C7_Original ==
  (/\ applierPc = "gcSetBundle"
   /\ cycle.parse = "minimal"
   /\ ~lastGood.nil
   /\ lastGood.applications # {})
    => supervisorApps = lastGood.applications

\* C8 (as claimed): a write to the bundle file writes the bundle the cycle
\* accepted, and a cycle whose payload fails both parses leaves the file as
\* it was.
C8_Original ==
  /\ [](cycle.did = "written" => ~bundle.nil /\ file = Marshal(bundle))
  /\ [][(applierPc = "fetch" /\ applierPc' # "fetch" /\ cycle'.parse = "none")
        => file' = file]_vars

\* C9 (persist before dispatch): a download cycle makes its downstream calls
\* only with a bundle it has written to the bundle file; a cycle whose fetch
\* failed, whose payload failed both parses or whose write failed makes none.
C9_PersistBeforeDispatch ==
  fetched =>
    /\ (calls # << >> =>
          cycle.did = "written" /\ ~bundle.nil /\ file = Marshal(bundle))
    /\ (cycle.did # "written" \/ cycle.parse = "none" => calls = << >>)

\* C9 witness: a cycle wrote its bundle and made all four calls.
C9_Witness ==
  /\ applierPc = "cont"
  /\ cycle.did = "written"
  /\ bundle.applications # {}
  /\ file = Marshal(bundle)
  /\ calls = <<"Supervisor.Set", "GC.SetBundle", "Updater.SetDesiredVersion",
               "MetricsPusher.SetBundle">>

\* The applier is about to make its first GetBundleBytes call.
BeforeFirstFetch == applierPc = "fetch" /\ ~fetched

CallsMade == {calls[i] : i \in 1..Len(calls)}

\* C10 (as claimed): with a bundle file that is present and valid JSON, all
\* four downstream components have the loaded bundle before the first
\* GetBundleBytes call.
C10_Original ==
  (BeforeFirstFetch /\ file.kind \in {"null", "object"}) =>
    CallsMade = {"Supervisor.Set", "GC.SetBundle", "Updater.SetDesiredVersion",
                 "MetricsPusher.SetBundle"}

\* C10 (amended): with a bundle file that decodes into a Bundle, Supervisor.Set
\* has received the file's applications before the first GetBundleBytes call,
\* and it is the only downstream call made before it.
C10_BootDispatch ==
  /\ (~fetched => CallsMade \subseteq {"Supervisor.Set"})
  /\ (BeforeFirstFetch
      /\ (file.kind = "null"
          \/ (file.kind = "object" /\ file.appsTyped /\ file.versionTyped))
      => calls = <<"Supervisor.Set">> /\ supervisorApps = file.apps)

\* C10 witness: the first fetch is about to start and the Supervisor has the
\* applications of the saved bundle.
C10_Witness ==
  /\ BeforeFirstFetch
  /\ file.kind = "object" /\ file.appsTyped /\ file.versionTyped
  /\ file.apps = Apps
  /\ supervisorApps = Apps
  /\ calls = <<"Supervisor.Set">>

\* The downstream calls of one download cycle, in the order of the code.
DispatchOrder ==
  <<"Supervisor.Set", "GC.SetBundle", "Updater.SetDesiredVersion",
    "MetricsPusher.SetBundle">>

\* C11 (dispatch order): the calls of a download cycle are a prefix of
\* Supervisor.Set, GC.SetBundle, Updater.SetDesiredVersion,
\* MetricsPusher.SetBundle, complete when the cycle ends; from the GC.SetBundle
\* call on, Supervisor.Set has received the applications of the cycle's bundle.
C11_DispatchOrder ==
  fetched =>
    /\ Len(calls) <= Len(DispatchOrder)
    /\ calls = SubSeq(DispatchOrder, 1, Len(calls))
    /\ (applierPc = "gcSetBundle" \/ "GC.SetBundle" \in CallsMade =>
          /\ calls[1] = "Supervisor.Set"
          /\ ~bundle.nil
          /\ supervisorApps = bundle.applications)
    /\ (applierPc \in {"cont", "fetch"} => calls \in {<< >>, DispatchOrder})

\* C11 witness: a download cycle ended after its four calls, in order, for a
\* bundle with applications and an agent version.
C11_Witness ==
  /\ fetched
  /\ applierPc = "cont"
  /\ calls = DispatchOrder
  /\ bundle.applications = Apps
  /\ bundle.desiredAgentVersion # 0
  /\ supervisorApps = Apps

\* C12 (as claimed): no Initialize fails with "failed to read device ID":
\* after a crash at any point of register() the next Initialize registers
\* again or loads both files.
C12_Original ==
  ~(/\ crashedAt \in {"registerDevice", "writeAccessKey", "writeDeviceID"}
    /\ initPc = "failed"
    /\ initError = "failed to read device ID")

\* The desired release is R, the desired set is S, and every service of S
\* carries R.
DesiredConverged(R, S) ==
  /\ desiredApplicationRelease = R
  /\ desiredApplicationServiceNames = S
  /\ QuorumGate(R, S, serviceStatuses)

\* C13 (application status is eventually published): if from some point on
\* the desired release is R, the desired set is S and every service of S
\* carries R, then a publish of R succeeds and reportedApplicationRelease
\* becomes R and stays R; failed publishes in between are retried.
C13_EventuallyPublished ==
  \A R \in Releases, S \in SUBSET Services :
    <>[]DesiredConverged(R, S) => <>[](reportedApplicationRelease = R)

\* C13 witness: the desired pair converged on two services and the publish of
\* its release has succeeded and is committed.
C13_Witness ==
  /\ DesiredConverged(MaxRelease, Services)
  /\ appPc = "cont"
  /\ appGate = "ok"
  /\ releaseToReport = MaxRelease
  /\ reportedApplicationRelease = MaxRelease

\* Some loop starts a report call in this step.
PublishStarts ==
  \/ appPc # "publish" /\ appPc' = "publish"
  \/ statusPc # "publish" /\ statusPc' = "publish"
  \/ statePc # "publish" /\ statePc' = "publish"

\* C14 (cancellation terminates the loops): a loop returns only by handing its
\* one send on the done channel to Stop; when Stop has returned the three
\* loops have returned and no report call starts any more; and a Stop called
\* on a Reporter whose loops were started returns.
C14_StopTerminates ==
  /\ [](stopPc[1] = "returned" =>
          appPc = "returned" /\ statusPc = "returned" /\ statePc = "returned")
  /\ [][/\ (appPc' = "returned" /\ appPc # "returned" =>
              appPc = "done" /\ stopPc[1] = "recvApp")
        /\ (statusPc' = "returned" /\ statusPc # "returned" =>
              statusPc = "done" /\ stopPc[1] = "recvStatus")
        /\ (statePc' = "returned" /\ statePc # "returned" =>
              statePc = "done" /\ stopPc[1] = "recvState")
        /\ (stopPc[1] = "returned" => ~PublishStarts)]_vars
  /\ ((started /\ stopPc[1] # "idle") ~> (stopPc[1] = "returned"))

\* C14 witness: Stop has returned on a Reporter whose loops had published and
\* committed a release, a service status and a service state.
C14_Witness ==
  /\ stopPc[1] = "returned"
  /\ started
  /\ reportedApplicationRelease \in Releases
  /\ DOMAIN reportedServiceStatuses # {}
  /\ DOMAIN reportedServiceStates # {}

\* C15 (lazy single start): no loop runs before a SetDesiredApplication call
\* has reached once.Do, and however many calls are made, one after another
\* or at the same time, the three loops are started once.
C15_LazySingleStart ==
  /\ instances <= 1
  /\ started = (instances = 1)
  /\ (~started =>
        /\ appPc = "idle" /\ statusPc = "idle" /\ statePc = "idle"
        /\ lockReaders = {})
  /\ (started => appPc # "idle" /\ statusPc # "idle" /\ statePc # "idle")

\* C15 witness: the loops were started once and the application-status loop
\* has published, while two more calls are in progress at the same time, one
\* holding the lock and one about to call once.Do.
C15_Witness ==
  /\ instances = 1
  /\ started
  /\ reportedApplicationRelease \in Releases
  /\ \E c, d \in Callers : callerPc[c] = "names" /\ callerPc[d] = "once"

\* C16 (custom-commands validator): a Validate call returns the error "custom
\* commands are disabled on this device" exactly when the variable was true
\* in that call and the service has a non-empty Command or a non-empty
\* Entrypoint; otherwise it returns nil.
C16_Validate ==
  validateResult # "none" =>
    /\ validateResult \in {"nil", ErrCustomCommandsAreDisabled}
    /\ (validateResult = ErrCustomCommandsAreDisabled) =
         (disabledAtCall /\ (validated.Command # << >> \/ validated.Entrypoint # << >>))

\* C16 witness: a service with an Entrypoint and no Command was refused, and
\* the variable has been switched off since.
C16_Witness ==
  /\ validateResult = ErrCustomCommandsAreDisabled
  /\ validated.Command = << >>
  /\ Len(validated.Entrypoint) = MaxLen
  /\ disabledAtCall
  /\ ~disableCustomCommands

\* Service s carries v.
StatusIs(s, v) == s \in DOMAIN serviceStatuses /\ serviceStatuses[s] = v

\* The loops run, s carries v and the committed snapshot has no v for s.
StatusPending(s, v) ==
  /\ started
  /\ StatusIs(s, v)
  /\ (s \notin DOMAIN reportedServiceStatuses \/ reportedServiceStatuses[s] # v)

\* The reportServiceStatus(s, v) call of the sweep in progress has returned nil.
StatusDeliveredNow(s, v) ==
  /\ statusPc = "publish"
  /\ s \in StatusCalled
  /\ statusDiff[s] = v

\* C17 (service status is delivered at least once): whenever a service
\* carries a value v the committed snapshot does not have, whether it was set
\* between sweeps or during one, either the value changes again or a
\* reportServiceStatus call carrying v returns successfully.
C17_StatusDelivered ==
  \A s \in Services, v \in Releases :
    StatusPending(s, v) ~> (~StatusIs(s, v) \/ StatusDeliveredNow(s, v))

\* C17 witness: a service whose committed value is another release has its
\* new value delivered, in a sweep that has another service still to publish.
C17_Witness ==
  \E s \in Services, v \in Releases :
    /\ StatusDeliveredNow(s, v)
    /\ StatusIs(s, v)
    /\ s \in DOMAIN reportedServiceStatuses
    /\ reportedServiceStatuses[s] # v
    /\ statusTodo # {}

\* C18 (application-status commit): the step in which a publish returns nil
\* sets reportedApplicationRelease to the release that publish carried,
\* whatever the desired release has become meanwhile; the step in which it
\* returns an error leaves it; and no other step changes it.
C18_CommitPublished ==
  [][/\ (appPc = "publish" /\ appGate' = "ok" =>
           reportedApplicationRelease' = releaseToReport)
     /\ (appPc = "publish" /\ appGate' = "error" =>
           reportedApplicationRelease' = reportedApplicationRelease)
     /\ (reportedApplicationRelease' # reportedApplicationRelease =>
           /\ appPc = "publish" /\ appGate' = "ok"
           /\ reportedApplicationRelease' = releaseToReport)]_vars

\* C18 witness: a publish succeeded after the desired release had changed
\* during the call; the release committed is the one published.
C18_Witness ==
  /\ appPc = "cont"
  /\ appGate = "ok"
  /\ releaseToReport \in Releases
  /\ reportedApplicationRelease = releaseToReport
  /\ desiredApplicationRelease # releaseToReport

\* The position of a loop.
LoopPc(loop) ==
  IF loop = "app" THEN appPc ELSE IF loop = "status" THEN statusPc ELSE statePc

\* C19 (publishing is lock-free): a loop holds the read lock only inside its
\* read section, never while one of its report calls is in progress; outside
\* the read sections the lock is free for the setters.
C19_PublishLockFree ==
  /\ \A loop \in Loops :
       /\ (LoopPc(loop) = "publish" => loop \notin lockReaders)
       /\ (loop \in lockReaders) = (LoopPc(loop) = "rlocked")
  /\ ((\A loop \in Loops : LoopPc(loop) # "rlocked") /\ lockWriter = 0 => CanLock)

\* C19 witness: the three loops each have a report call in progress and a
\* SetDesiredApplication call holds the write lock.
C19_Witness ==
  /\ \A loop \in Loops : LoopPc(loop) = "publish"
  /\ lockReaders = {}
  /\ lockWriter # 0

\* The desired release and the desired names as they are now.
DesiredPair == <<desiredApplicationRelease, desiredApplicationServiceNames>>

\* C20 (the gate sees a consistent pair): whenever no SetDesiredApplication
\* call holds the write lock, the desired release and the desired names are
\* the two arguments of one call, the last one; and the read section of
\* applicationStatusReporter, which reads both, never overlaps a writer.
C20_ConsistentPair ==
  /\ (lockWriter = 0 => DesiredPair = lastArgs)
  /\ ("app" \in lockReaders => lockWriter = 0 /\ DesiredPair = lastArgs)

\* C20 witness: the loop is inside its read section and reads the pair of the
\* latest call, while an earlier call with other arguments has not returned.
C20_Witness ==
  /\ appPc = "rlocked"
  /\ "app" \in lockReaders
  /\ DesiredPair = <<MaxRelease, Services>>
  /\ \E c \in Callers :
       /\ callerPc[c] = "once"
       /\ callerArgs[c][1] # MaxRelease
       /\ callerArgs[c][2] # Services

\* The Stop call of c has received the application-status loop's send.
StopPast(c) == stopPc[c] \in {"recvStatus", "recvState", "returned"}

\* C21 (Stop returns only if the loops were started, and only once): a Stop
\* call gets past its first receive only when the loops were started and the
\* application-status loop has handed over its one send; until the loops are
\* started every Stop call has cancelled the context at most and waits on the
\* first done channel; and of all the Stop calls on a Reporter at most one
\* gets past the first receive, so a call made after another has returned
\* never returns.
C21_StopNeedsLoops ==
  /\ \A c \in StopCallers :
       /\ (StopPast(c) => started /\ appPc = "returned")
       /\ (stopPc[c] # "idle" => cancelled)
  /\ (~started => \A c \in StopCallers : stopPc[c] \in {"idle", "recvApp"})
  /\ Cardinality({c \in StopCallers : StopPast(c)}) <= 1
  /\ \A c, d \in StopCallers :
       stopPc[c] = "returned" /\ d # c => stopPc[d] \in {"idle", "recvApp"}

\* C21 witness: one Stop call has returned, the three loops have returned, and
\* another Stop call waits on the first done channel.
C21_Witness ==
  /\ appPc = "returned" /\ statusPc = "returned" /\ statePc = "returned"
  /\ \E c, d \in StopCallers : stopPc[c] = "returned" /\ stopPc[d] = "recvApp"

\* A Stop call waits on the first done channel of a Reporter on which
\* SetDesiredApplication was never called.
StopBeforeStart ==
  /\ lastArgs = NoArgs
  /\ ~started
  /\ cancelled
  /\ \E c \in StopCallers : stopPc[c] = "recvApp"

====
